---- MODULE Spec2Model ----
(***************************************************************************)
(* get_mag_toc.py: table-of-contents extractor for magazine PDFs.          *)
(*                                                                         *)
(* Text is modelled as TLA+ strings, character by character.  Characters   *)
(* outside ASCII that the source names are written with the stand-ins      *)
(* below (EmDash, RQuote, ...); Ord gives them their real code points.     *)
(***************************************************************************)
EXTENDS Integers, Sequences, FiniteSets, TLC

Null == "<None>"

\* ---------------------------------------------------------------- characters
EmDash   == "~"   \* U+2014
EnDash   == "^"   \* U+2013
RQuote   == "%"   \* U+2019
LDQuote  == "{"   \* U+201C
RDQuote  == "}"   \* U+201D
NBSP     == "|"   \* U+00A0
Ellipsis == "@"   \* U+2026
MidDot   == "#"   \* U+00B7
Bullet   == "*"   \* U+2022
FigSpace == "<"   \* U+2007
ThinSpace == ">"  \* U+2009

UpperStr == "ABCDEFGHIJKLMNOPQRSTUVWXYZ"
LowerStr == "abcdefghijklmnopqrstuvwxyz"
DigitStr == "0123456789"
\* ASCII 32..95 and 97..126 in code-point order
AsciiLo == " !\"#$%&'()*+,-./0123456789:;<=>?@ABCDEFGHIJKLMNOPQRSTUVWXYZ[\\]^_"
AsciiHi == "abcdefghijklmnopqrstuvwxyz{|}~"

At(s, k) == SubSeq(s, k, k)
CharsOf(s) == {At(s, k) : k \in 1..Len(s)}

Uppers == CharsOf(UpperStr)
Lowers == CharsOf(LowerStr)
Digits == CharsOf(DigitStr)
Letters == Uppers \cup Lowers
\* \s of the re module (str patterns), restricted to the alphabet
Spaces == {" ", "\t", "\n", NBSP, FigSpace, ThinSpace}
\* \w
WordChars == Letters \cup Digits \cup {"_"}
Dashes == {"-", EmDash}
\* LEADERS character class, line 178
LeaderChars == {".", Ellipsis, MidDot, Bullet, EnDash, EmDash, FigSpace, ThinSpace, "-"}
\* the class [\w . ' U+2019 -] of the author shapes, lines 164 and 184
AuthorChars == WordChars \cup {".", "'", RQuote, "-"}
\* [A-Z '&/.\-] of SECTION_THEN_PAGE, line 175
SectionChars == Uppers \cup {" ", "'", "&", "/", ".", "-"}

IndexIn(str, c) == CHOOSE k \in 1..Len(str) : At(str, k) = c

\* code points of the stand-in characters
StandIns == {EmDash, EnDash, RQuote, LDQuote, RDQuote, NBSP, Ellipsis, MidDot, Bullet,
             FigSpace, ThinSpace}
StandInOrd(c) ==
  CASE c = EmDash -> 8212 [] c = EnDash -> 8211 [] c = RQuote -> 8217
    [] c = LDQuote -> 8220 [] c = RDQuote -> 8221 [] c = NBSP -> 160
    [] c = Ellipsis -> 8230 [] c = MidDot -> 183 [] c = Bullet -> 8226
    [] c = FigSpace -> 8199 [] c = ThinSpace -> 8201

\* code point of a character (ord)
Ord(c) ==
  IF c \in StandIns THEN StandInOrd(c)
  ELSE IF c = "\t" THEN 9
  ELSE IF c = "\n" THEN 10
  ELSE IF c \in CharsOf(AsciiLo) THEN 31 + IndexIn(AsciiLo, c)
  ELSE 96 + IndexIn(AsciiHi, c)

UpperCh(c) == IF c \in Lowers THEN At(UpperStr, IndexIn(LowerStr, c)) ELSE c
LowerCh(c) == IF c \in Uppers THEN At(LowerStr, IndexIn(UpperStr, c)) ELSE c

\* the strings parts[lo..hi] joined
RECURSIVE ConcatRange(_, _, _)
ConcatRange(parts, lo, hi) ==
  IF lo > hi THEN ""
  ELSE IF lo = hi THEN parts[lo]
  ELSE LET mid == (lo + hi) \div 2
       IN ConcatRange(parts, lo, mid) \o ConcatRange(parts, mid + 1, hi)

\* str.upper / str.lower
Upper(s) == ConcatRange([k \in 1..Len(s) |-> UpperCh(At(s, k))], 1, Len(s))
Lower(s) == ConcatRange([k \in 1..Len(s) |-> LowerCh(At(s, k))], 1, Len(s))

\* length of the run of characters of class C that starts at position k
RECURSIVE Run(_, _, _)
Run(s, k, C) == IF k <= Len(s) /\ At(s, k) \in C THEN 1 + Run(s, k + 1, C) ELSE 0

\* length of the run of characters of class C that ends at position k
RECURSIVE RunBack(_, _, _)
RunBack(s, k, C) == IF k >= 1 /\ At(s, k) \in C THEN 1 + RunBack(s, k - 1, C) ELSE 0

\* str.strip / str.rstrip
RStrip(s) == SubSeq(s, 1, Len(s) - RunBack(s, Len(s), Spaces))
Strip(s) == LET r == RStrip(s) IN SubSeq(r, 1 + Run(r, 1, Spaces), Len(r))

StartsWithAt(s, k, p) == k + Len(p) - 1 <= Len(s) /\ SubSeq(s, k, k + Len(p) - 1) = p
StartsWith(s, p) == StartsWithAt(s, 1, p)
\* p in s
Contains(s, p) == \E k \in 1..(Len(s) - Len(p) + 1) : StartsWithAt(s, k, p)
\* s.find(p): 0-based offset, -1 when absent
Find(s, p) ==
  IF Contains(s, p)
  THEN (CHOOSE k \in 1..(Len(s) - Len(p) + 1) :
          StartsWithAt(s, k, p) /\ \A j \in 1..(k - 1) : ~StartsWithAt(s, j, p)) - 1
  ELSE -1

\* int() of a digit string
RECURSIVE ToInt(_)
ToInt(d) ==
  IF d = "" THEN 0
  ELSE 10 * ToInt(SubSeq(d, 1, Len(d) - 1)) + (IndexIn(DigitStr, At(d, Len(d))) - 1)

\* re.search(r"[a-zA-Z]", s)
HasAlpha(s) == \E k \in 1..Len(s) : At(s, k) \in Letters

Min(S) == CHOOSE x \in S : \A y \in S : x <= y
Max(S) == CHOOSE x \in S : \A y \in S : x >= y

\* ------------------------------------------------------------------ cleanup
\* lines 103-106
dehyphenate(txt) ==
  LET n == Len(txt)
      t1 == ConcatRange(
              [k \in 1..n |->
                 IF /\ At(txt, k) = "-" /\ k + 2 <= n
                    /\ At(txt, k + 1) = "\n" /\ At(txt, k + 2) \in Lowers THEN ""
                 ELSE IF /\ At(txt, k) = "\n" /\ k > 1 /\ k + 1 <= n
                         /\ At(txt, k - 1) = "-" /\ At(txt, k + 1) \in Lowers THEN ""
                 ELSE At(txt, k)], 1, n)
      n1 == Len(t1)
  IN ConcatRange(
       [k \in 1..n1 |->
          IF /\ At(t1, k) = "\n" /\ k + 1 <= n1 /\ At(t1, k + 1) \in Lowers
             /\ (k = 1 \/ At(t1, k - 1) \notin {".", ":", ";"}) THEN " "
          ELSE At(t1, k)], 1, n1)

\* lines 108-112
normalize(txt) ==
  ConcatRange(
    [k \in 1..Len(txt) |->
       LET c == At(txt, k)
       IN IF c = EmDash THEN "-"
          ELSE IF c = RQuote THEN "'"
          ELSE IF c = LDQuote \/ c = RDQuote THEN "\""
          ELSE IF c = NBSP THEN " "
          ELSE c], 1, Len(txt))

\* ------------------------------------------------------------------ patterns
\* a re match object: the named groups (page already through int())
NoMatch == [ok |-> FALSE, title |-> "", page |-> 0, author |-> ""]
MatchOf(t, p, a) == [ok |-> TRUE, title |-> t, page |-> p, author |-> a]

\* where a leading ^\s* may stop: after any prefix of the leading whitespace
Starts(s) == 1..(Run(s, 1, Spaces) + 1)
\* index of the last character that is not whitespace (0 if none)
LastInk(s) == Len(s) - RunBack(s, Len(s), Spaces)

\* (\d{1,3})\s*$ matches at position p
TailPage(s, p) ==
  LET d == Run(s, p, Digits)
  IN d \in 1..3 /\ p + d + Run(s, p + d, Spaces) = Len(s) + 1
PageAt(s, p) == ToInt(SubSeq(s, p, p + Run(s, p, Digits) - 1))

\* \s{2,}(\d{1,3})\s*$ matches at position r
GapTail(s, r) == LET w == Run(s, r, Spaces) IN w >= 2 /\ TailPage(s, r + w)
GapTails(s) == {r \in 1..Len(s) : GapTail(s, r)}

\* the positions right after a match of \s LEADERS \s that starts at r
LeadEnds(s, r) ==
  IF r <= Len(s) /\ At(s, r) \in Spaces
  THEN {r + 2 + l : l \in {k \in 1..Run(s, r + 1, LeaderChars) :
                             r + 1 + k <= Len(s) /\ At(s, r + 1 + k) \in Spaces}}
  ELSE {}

\* the group of a trailing (.+?)\s*$ whose text starts at g: up to the last
\* character that is not whitespace, or (the preceding greedy whitespace giving
\* one character back) the last character when nothing but whitespace is left
LazyRest(s, g) == IF g <= LastInk(s) THEN SubSeq(s, g, LastInk(s)) ELSE At(s, Len(s))

\* TITLE_DOTS_PAGE_AUTHOR, line 180
DotsPageAuthorAt(s, p) ==
  LET d == Run(s, p, Digits)
      q == p + d + Run(s, p + d, Spaces)
  IN d \in 1..3 /\ q < Len(s) /\ At(s, q) \in Dashes
TITLE_DOTS_PAGE_AUTHOR(s) ==
  LET ends(r) == {p \in LeadEnds(s, r) : DotsPageAuthorAt(s, p)}
      rs == {r \in 2..Len(s) : ends(r) # {}}
      as == {a \in Starts(s) : \E r \in rs : r > a}
  IN IF as = {} THEN NoMatch
     ELSE LET a == Max(as)
              r == Min({k \in rs : k > a})
              p == Max(ends(r))
              d == Run(s, p, Digits)
              q == p + d + Run(s, p + d, Spaces)
          IN MatchOf(SubSeq(s, a, r - 1), PageAt(s, p),
                     LazyRest(s, q + 1 + Run(s, q + 1, Spaces)))

\* TITLE_AUTHOR_DOTS_PAGE, line 182
TITLE_AUTHOR_DOTS_PAGE(s) ==
  LET n == Len(s)
      pages(f) == {p \in LeadEnds(s, f + 1) : TailPage(s, p)}
      fs == {f \in 1..n : pages(f) # {}}
      dashOf(e) == e + 1 + Run(s, e + 1, Spaces)
      okEnd(e) == dashOf(e) <= n /\ At(s, dashOf(e)) \in Dashes
                  /\ \E f \in fs : f >= dashOf(e) + 1
      as == {a \in Starts(s) : \E e \in a..n : okEnd(e)}
  IN IF as = {} THEN NoMatch
     ELSE LET a == Max(as)
              e == Min({k \in a..n : okEnd(k)})
              q == dashOf(e)
              g == Max({k \in (q + 1)..(q + 1 + Run(s, q + 1, Spaces)) : \E f \in fs : f >= k})
              f == Min({k \in fs : k >= g})
          IN MatchOf(SubSeq(s, a, e), PageAt(s, Max(pages(f))), SubSeq(s, g, f))

\* the author group [A-Z][\w.'-]+(?:\s+[A-Z][\w.'-]+)* starting at k: the
\* positions where it can end with whitespace following
RECURSIVE AuthorEnds(_, _)
AuthorEnds(s, k) ==
  IF k <= Len(s) /\ At(s, k) \in Uppers /\ Run(s, k + 1, AuthorChars) >= 1
  THEN LET e == k + Run(s, k + 1, AuthorChars)
       IN IF e < Len(s) /\ At(s, e + 1) \in Spaces
          THEN {e} \cup AuthorEnds(s, e + 1 + Run(s, e + 1, Spaces))
          ELSE {}
  ELSE {}

\* AUTHOR_TITLE_PAGE, line 184
AUTHOR_TITLE_PAGE(s) ==
  LET a == Run(s, 1, Spaces) + 1
      tails == GapTails(s)
      okEnd(e) == Run(s, e + 1, Spaces) >= 2 /\ \E r \in tails : r >= e + 4
      es == {e \in AuthorEnds(s, a) : okEnd(e)}
  IN IF es = {} THEN NoMatch
     ELSE LET e == Max(es)
              t == Max({k \in (e + 3)..(e + 1 + Run(s, e + 1, Spaces)) : \E r \in tails : r > k})
              r == Min({k \in tails : k > t})
          IN MatchOf(SubSeq(s, t, r - 1), PageAt(s, r + Run(s, r, Spaces)), SubSeq(s, a, e))

\* TITLE_DOTS_PAGE, line 186
TITLE_DOTS_PAGE(s) ==
  LET ends(r) == {p \in LeadEnds(s, r) : TailPage(s, p)}
      rs == {r \in 2..Len(s) : ends(r) # {}}
      as == {a \in Starts(s) : \E r \in rs : r > a}
  IN IF as = {} THEN NoMatch
     ELSE LET a == Max(as)
              r == Min({k \in rs : k > a})
          IN MatchOf(SubSeq(s, a, r - 1), PageAt(s, Max(ends(r))), "")

\* TITLE_SPACES_PAGE, line 188
TITLE_SPACES_PAGE(s) ==
  LET tails == GapTails(s)
      as == {a \in Starts(s) : \E r \in tails : r > a}
  IN IF as = {} THEN NoMatch
     ELSE LET a == Max(as)
              r == Min({k \in tails : k > a})
          IN MatchOf(SubSeq(s, a, r - 1), PageAt(s, r + Run(s, r, Spaces)), "")

\* AUTHOR_PAGE_TITLE, lines 162-170
AUTHOR_PAGE_TITLE(s) ==
  LET n == Len(s)
      pageOf(e) == e + 1 + Run(s, e + 1, Spaces)
      gapOf(e) == pageOf(e) + Run(s, pageOf(e), Digits)
      okEnd(e) == /\ Run(s, e + 1, Spaces) >= 2
                  /\ Run(s, pageOf(e), Digits) \in 1..3
                  /\ Run(s, gapOf(e), Spaces) >= 2
                  /\ (gapOf(e) + Run(s, gapOf(e), Spaces) <= n \/ Run(s, gapOf(e), Spaces) >= 3)
      es == {e \in AuthorEnds(s, 1) : okEnd(e)}
  IN IF es = {} THEN NoMatch
     ELSE LET e == Max(es)
          IN MatchOf(LazyRest(s, gapOf(e) + Run(s, gapOf(e), Spaces)),
                     PageAt(s, pageOf(e)), SubSeq(s, 1, e))

\* PAGE_TITLE, line 172 (the same expression is the first shape of try_section, line 209)
PAGE_TITLE(s) ==
  LET n == Len(s)
      a == Run(s, 1, Spaces) + 1
      d == Run(s, a, Digits)
      w == Run(s, a + d, Spaces)
  IN IF d \in 1..3 /\ w >= 1 /\ (a + d + w <= n \/ w >= 2)
     THEN MatchOf(LazyRest(s, a + d + w), PageAt(s, a), "")
     ELSE NoMatch

\* TRAILING_DOTS, line 173
TRAILING_DOTS(s) ==
  LET pageOf(r) == r + 2 + Run(s, r + 1, {"."})
      ok(r) == /\ At(s, r) \in Spaces
               /\ Run(s, r + 1, {"."}) >= 2
               /\ pageOf(r) - 1 <= Len(s) /\ At(s, pageOf(r) - 1) \in Spaces
               /\ TailPage(s, pageOf(r))
      rs == {r \in 2..Len(s) : ok(r)}
  IN IF rs = {} THEN NoMatch
     ELSE MatchOf(SubSeq(s, 1, Min(rs) - 1), PageAt(s, pageOf(Min(rs))), "")

\* TRAILING_NUM, line 174
TRAILING_NUM(s) ==
  LET rs == {r \in 2..Len(s) : At(s, r) \in Spaces /\ TailPage(s, r + 1)}
  IN IF rs = {} THEN NoMatch
     ELSE MatchOf(SubSeq(s, 1, Min(rs) - 1), PageAt(s, Min(rs) + 1), "")

\* SECTION_THEN_PAGE, line 175 (the section group is returned as title)
SECTION_THEN_PAGE(s) ==
  LET a == Run(s, 1, Spaces) + 1
      rs == IF a <= Len(s) /\ At(s, a) \in Uppers
            THEN {r \in GapTails(s) : r >= a + 2 /\ r <= a + 1 + Run(s, a + 1, SectionChars)}
            ELSE {}
  IN IF rs = {} THEN NoMatch
     ELSE MatchOf(SubSeq(s, a, Min(rs) - 1), PageAt(s, Min(rs) + Run(s, Min(rs), Spaces)), "")

\* ---------------------------------------------------------------------- data
NY_SECTIONS ==
  <<"THE TALK OF THE TOWN", "PERSONAL HISTORY", "TAKES", "SHOUTS & MURMURS",
    "ANNALS OF ARTIFICIAL INTELLIGENCE", "A REPORTER AT LARGE", "PROFILES", "FICTION",
    "THE CRITICS", "BOOKS", "THE CURRENT CINEMA", "THE THEATRE", "POEMS", "GOINGS ON",
    "COVER", "CONTRIBUTORS", "TABLES FOR TWO", "MUSICAL EVENTS", "ON AND OFF THE MENU",
    "THE MAIL">>
ATL_SECTIONS ==
  <<"FEATURES", "DISPATCHES", "IDEAS", "CULTURE", "POLITICS", "SCIENCE",
    "TECHNOLOGY", "BUSINESS", "BOOKS", "REVIEW", "ESSAYS", "VOICES", "CORRESPONDENCE">>
HARPERS_SECTIONS ==
  <<"READINGS", "ESSAY", "REPORT", "NOTEBOOK", "LETTER", "LETTERS", "REVIEWS", "REVIEW",
    "POEM", "POETRY", "FICTION", "ART", "ARTS & LETTERS", "ANNOTATIONS", "DEPARTMENTS">>

NOISE_UPPER ==
  {"PRICE $", "ILLUSTRATIONS BY", "WINTER PREVIEW", "THE WEEKEND ESSAY", "SUBSCRIBE",
   "THE NEW YORKER,", "LOVE BOOKS, LOVE FOLIO",
   "HARPER'S INDEX", "HARPER" \o RQuote \o "S INDEX", "HARPERS INDEX", "FINDINGS"}

Brands == {"auto", "newyorker", "atlantic", "harpers"}

Range(f) == {f[k] : k \in DOMAIN f}

\* a TocItem (author Null when None)
TocItem(page, title, sect, author) ==
  [page |-> page, title |-> title, section |-> sect, author |-> author]

\* DATE_RE.search(s), line 100
MONTHS == {"JAN", "FEB", "MAR", "APR", "MAY", "JUN", "JUL", "AUG", "SEP", "OCT", "NOV", "DEC"}
DateAt(s, p) ==
  LET q0 == p + 3
      q1 == IF q0 <= Len(s) /\ At(s, q0) = "." THEN q0 + 1 ELSE q0
      q2 == IF q1 <= Len(s) /\ At(s, q1) = "," THEN q1 + 1 ELSE q1
      w == Run(s, q2, Spaces)
      d == Run(s, q2 + w, Digits)
      c == q2 + w + d
      w2 == Run(s, c + 1, Spaces)
  IN /\ p + 2 <= Len(s) /\ Upper(SubSeq(s, p, p + 2)) \in MONTHS
     /\ (p = 1 \/ At(s, p - 1) \notin WordChars)
     /\ w >= 1 /\ d \in 1..2
     /\ c <= Len(s) /\ At(s, c) = ","
     /\ w2 >= 1 /\ Run(s, c + 1 + w2, Digits) >= 4
DATE_RE(s) == \E p \in 1..Len(s) : DateAt(s, p)

\* any(noise in U for noise in NOISE_UPPER), line 226
IsNoise(U) == \E noise \in NOISE_UPPER : Contains(U, noise)

\* ------------------------------------------------------------------ sections
is_known_section_name(name, brd) ==
  LET U == Upper(Strip(name))
      starts(keys) == \E k \in DOMAIN keys : StartsWith(U, keys[k])
      rmsp(t) == LET F[k \in 0..Len(t)] ==
                       IF k = 0 THEN ""
                       ELSE IF At(t, k) = " " THEN F[k - 1] ELSE F[k - 1] \o At(t, k)
                 IN F[Len(t)]
  IN CASE brd = "newyorker" -> starts(NY_SECTIONS)
       [] brd = "atlantic" -> starts(ATL_SECTIONS)
       [] brd = "harpers" ->
            IF Contains(U, "HARPER") /\ Contains(U, "INDEX") THEN FALSE
            ELSE IF rmsp(U) = "FINDINGS" THEN FALSE
            ELSE starts(HARPERS_SECTIONS)
       [] OTHER -> starts(NY_SECTIONS \o ATL_SECTIONS \o HARPERS_SECTIONS)

valid_page(n) == 1 <= n /\ n <= 999

\* the page of a section header without one, and of an item without one (None)
NoPage == -1

NoSection == [ok |-> FALSE, name |-> "", pg |-> NoPage]
SectionOf(name, pg) == [ok |-> TRUE, name |-> name, pg |-> pg]

try_section(line, brd) ==
  LET U == Upper(Strip(line))
      m == PAGE_TITLE(U)
      m2 == SECTION_THEN_PAGE(U)
  IN IF m.ok /\ is_known_section_name(m.title, brd) /\ valid_page(m.page)
     THEN SectionOf(m.title, m.page)
     ELSE IF m2.ok /\ is_known_section_name(m2.title, brd) /\ valid_page(m2.page)
     THEN SectionOf(m2.title, m2.page)
     ELSE IF is_known_section_name(U, brd) THEN SectionOf(U, NoPage)
     ELSE NoSection

\* section_pages: the dict as the sequence of its (key, value) pairs in insertion order
SecKeys(sp) == {sp[k][1] : k \in DOMAIN sp}
SecGet(sp, name) == (CHOOSE k \in DOMAIN sp : sp[k][1] = name)
SecPage(sp, name) == sp[SecGet(sp, name)][2]
\* faulty variant of SecRecord: the page of every header is stored
SecRecordOverwrite(sp, name, pg) ==
  IF name \notin SecKeys(sp) THEN Append(sp, <<name, pg>>)
  ELSE [sp EXCEPT ![SecGet(sp, name)] = <<name, pg>>]

\* lines 231-232
SecRecord(sp, name, pg) ==
  IF name \notin SecKeys(sp) THEN Append(sp, <<name, pg>>)
  ELSE IF SecPage(sp, name) = NoPage THEN [sp EXCEPT ![SecGet(sp, name)] = <<name, pg>>]
  ELSE sp

\* ------------------------------------------------------------- item cascade
Alphabet == CharsOf(AsciiLo) \cup CharsOf(AsciiHi) \cup {"\t", "\n"}
NotQuote == Alphabet \ {"\""}
\* the class "not a digit, not a straight or curly double quote" of line 301
NotDigitQuote == Alphabet \ (Digits \cup {"\"", LDQuote, RDQuote})

\* the quoted-title expression of line 301 matched at position k
PoemAt(s, k) ==
  LET n == Len(s)
      c == k + 1 + Run(s, k + 1, NotQuote)
      D == c + 1 + Run(s, c + 1, NotDigitQuote)
      x0 == c + 1 + Run(s, c + 1, Spaces)
      x == IF x0 <= n /\ At(s, x0) \in Dashes THEN x0 + 1 + Run(s, x0 + 1, Spaces) ELSE x0
      dd == IF Run(s, D, Digits) > 3 THEN 3 ELSE Run(s, D, Digits)
      e == IF D + dd <= n /\ At(s, D + dd) = ")" THEN D + dd + 1 ELSE D + dd
  IN IF /\ k <= n /\ At(s, k) = "\"" /\ c > k + 1 /\ c <= n
        /\ D <= n /\ At(s, D) \in Digits
     THEN [ok |-> TRUE, t |-> SubSeq(s, k, c), a |-> SubSeq(s, x, D - 1),
           p |-> SubSeq(s, D, D + dd - 1), end |-> e]
     ELSE [ok |-> FALSE, t |-> "", a |-> "", p |-> "", end |-> k + 1]

\* re.findall of that expression
RECURSIVE PoemFindAll(_, _)
PoemFindAll(s, k) ==
  IF k > Len(s) THEN <<>>
  ELSE LET m == PoemAt(s, k)
       IN IF m.ok THEN <<m>> \o PoemFindAll(s, m.end) ELSE PoemFindAll(s, k + 1)

\* lines 303-306
RECURSIVE PoemItems(_, _)
PoemItems(ms, sect) ==
  IF ms = <<>> THEN <<>>
  ELSE LET m == Head(ms)
           page == ToInt(m.p)
           a == Strip(m.a)
       IN (IF valid_page(page)
           THEN <<TocItem(page, Strip(m.t), sect, IF a = "" THEN Null ELSE a)>>
           ELSE <<>>) \o PoemItems(Tail(ms), sect)

\* ------------------------------------------------------------------- inputs
\* the lines the input texts are made of
LINE_POOL ==
  {"FICTION", "15 FICTION", "FICTION  20", "THE MAIL    2", "LETTERS    2",
   "Jane Doe   A reply to last week   5",
   "The Vanishing Act ......... 34 " \o EmDash \o " Maria Lopez",
   "5 A Reply To Last Week", "---  5", "Jane Doe  12  A reply", "SUBSCRIBE TODAY NOW"}
\* the most lines of an input text
MaxLines == 3

\* every expression of the scan loop matched against one line
Shapes(line) ==
  [date |-> DATE_RE(line), noise |-> IsNoise(Upper(line)),
   m1 |-> TITLE_DOTS_PAGE_AUTHOR(line), m2 |-> TITLE_AUTHOR_DOTS_PAGE(line),
   m3 |-> AUTHOR_TITLE_PAGE(line), m4 |-> TITLE_DOTS_PAGE(line),
   m5 |-> TITLE_SPACES_PAGE(line), m6 |-> AUTHOR_PAGE_TITLE(line),
   m7 |-> PAGE_TITLE(line),
   m8 |-> IF TRAILING_DOTS(line).ok THEN TRAILING_DOTS(line) ELSE TRAILING_NUM(line),
   poems |-> PoemFindAll(line, 1)]

\* Shapes and try_section of the lines of LINE_POOL, computed once
KnownLines == {Strip(normalize(l)) : l \in LINE_POOL}
ShapeTable == [l \in KnownLines |-> Shapes(l)]
SectionTable == [b \in Brands |-> [l \in KnownLines |-> try_section(l, b)]]
ShapeOf(line) == IF line \in KnownLines THEN ShapeTable[line] ELSE Shapes(line)
SectionOfLine(line, brd) ==
  IF line \in KnownLines THEN SectionTable[brd][line] ELSE try_section(line, brd)

\* what one line gives: the items appended and the number of lines consumed
Emit(its, adv) == [items |-> its, adv |-> adv]

\* lines 279-282: the look-ahead of the author/page/title shape
Continues(nxt, brd) ==
  /\ ~(LastInk(nxt) >= 1 /\ At(nxt, LastInk(nxt)) \in Digits)
  /\ ~SectionOfLine(nxt, brd).ok
  /\ 10 <= Len(nxt) /\ Len(nxt) <= 200

\* lines 239-309: the item patterns tried on a line, first match wins
withAuthor(m, sect) == TocItem(m.page, Strip(m.title), sect, Strip(m.author))
\* faulty variant of noAuthor: the section is not passed on
noAuthorUnsectioned(m, sect) == TocItem(m.page, Strip(m.title), Null, Null)
noAuthor(m, sect) == TocItem(m.page, Strip(m.title), sect, Null)
guarded(m, brd) ==
  ~is_known_section_name(Upper(Strip(m.title)), brd) /\ valid_page(m.page)

CascadeOn(m1, m2, m3, m4, m5, m6, m7, m8, poems, line, rest, sect, brd) ==
     IF sect = Null \/ sect = "" THEN Emit(<<>>, 1)
     ELSE IF m1.ok THEN Emit(IF valid_page(m1.page) THEN <<withAuthor(m1, sect)>> ELSE <<>>, 1)
     ELSE IF m2.ok THEN Emit(IF valid_page(m2.page) THEN <<withAuthor(m2, sect)>> ELSE <<>>, 1)
     ELSE IF m3.ok
       THEN Emit(IF valid_page(m3.page) /\ HasAlpha(Strip(m3.title))
                 THEN <<withAuthor(m3, sect)>> ELSE <<>>, 1)
     ELSE IF m4.ok THEN Emit(IF guarded(m4, brd) THEN <<noAuthor(m4, sect)>> ELSE <<>>, 1)
     ELSE IF m5.ok THEN Emit(IF guarded(m5, brd) THEN <<noAuthor(m5, sect)>> ELSE <<>>, 1)
     ELSE IF m6.ok
       THEN IF valid_page(m6.page) /\ HasAlpha(Strip(m6.title))
            THEN IF sect # "POEMS" /\ rest # <<>> /\ Continues(Strip(Head(rest)), brd)
                 THEN Emit(<<TocItem(m6.page,
                                     Strip(m6.title) \o " " \o EmDash \o " " \o Strip(Head(rest)),
                                     sect, Strip(m6.author))>>, 2)
                 ELSE Emit(<<withAuthor(m6, sect)>>, 1)
            ELSE Emit(<<>>, 1)
     ELSE IF m7.ok
       THEN Emit(IF valid_page(m7.page) /\ HasAlpha(Strip(m7.title))
                 THEN <<noAuthor(m7, sect)>> ELSE <<>>, 1)
     ELSE IF m8.ok
       THEN Emit(IF guarded(m8, brd) /\ HasAlpha(Strip(m8.title)) THEN <<noAuthor(m8, sect)>> ELSE <<>>, 1)
     ELSE IF sect = "POEMS" /\ Contains(line, "\"") /\ (\E k \in 1..Len(line) : At(line, k) \in Digits)
       THEN Emit(PoemItems(poems, sect), 1)
     ELSE Emit(<<>>, 1)

OnShape(sh, line, rest, sect, brd) ==
  CascadeOn(sh.m1, sh.m2, sh.m3, sh.m4, sh.m5, sh.m6, sh.m7, sh.m8, sh.poems,
            line, rest, sect, brd)

Cascade(line, rest, sect, brd) == OnShape(ShapeOf(line), line, rest, sect, brd)

\* the sections whose lines are skipped, line 236
SUPPRESSED == {"CONTRIBUTORS", "THE MAIL"}

\* the state of the scan loop of parse
ScanState(ix, sect, secpages, its) ==
  [i |-> ix, section |-> sect, section_pages |-> secpages, items |-> its]

\* lines 222-309: one pass of the loop body, at cursor st.i <= Len(lines)
Consume(st, c) ==
  ScanState(st.i + c.adv, st.section, st.section_pages, st.items \o c.items)

ScanOn(st, line, sh, sec, lns, brd) ==
  IF sh.date \/ sh.noise THEN ScanState(st.i + 1, st.section, st.section_pages, st.items)
  ELSE IF sec.ok
    THEN ScanState(st.i + 1, sec.name, SecRecord(st.section_pages, sec.name, sec.pg), st.items)
  ELSE IF st.section \in SUPPRESSED
    THEN ScanState(st.i + 1, st.section, st.section_pages, st.items)
  ELSE Consume(st, OnShape(sh, line, SubSeq(lns, st.i + 1, Len(lns)), st.section, brd))

ScanStripped(st, line, lns, brd) ==
  ScanOn(st, line, ShapeOf(line), SectionOfLine(line, brd), lns, brd)

ScanLine(st, lns, brd) == ScanStripped(st, Strip(lns[st.i]), lns, brd)

\* ------------------------------------------------------------ de-dupe + sort
RECURSIVE StrLess(_, _)
StrLess(a, b) ==
  IF b = "" THEN FALSE
  ELSE IF a = "" THEN TRUE
  ELSE IF At(a, 1) = At(b, 1) THEN StrLess(SubSeq(a, 2, Len(a)), SubSeq(b, 2, Len(b)))
  ELSE Ord(At(a, 1)) < Ord(At(b, 1))

OrEmpty(sect) == IF sect = Null THEN "" ELSE sect

\* the key of line 314
DedupKey(it) == <<it.page, Lower(it.title), OrEmpty(it.section)>>

\* faulty variant of Dedupe: of the items sharing a key the last one is kept
Later(its, k) == {DedupKey(its[j]) : j \in (k + 1)..Len(its)}
RECURSIVE KeepLast(_, _)
KeepLast(its, k) ==
  IF k > Len(its) THEN <<>>
  ELSE (IF DedupKey(its[k]) \in Later(its, k) THEN <<>> ELSE <<its[k]>>) \o KeepLast(its, k + 1)
DedupeLast(its, seen) == KeepLast(its, 1)

\* lines 312-316
RECURSIVE Dedupe(_, _)
Dedupe(its, seen) ==
  IF its = <<>> THEN <<>>
  ELSE IF DedupKey(Head(its)) \in seen THEN Dedupe(Tail(its), seen)
  ELSE <<Head(its)>> \o Dedupe(Tail(its), seen \cup {DedupKey(Head(its))})

\* the page key of an item without a page, line 317
PAGE_SENTINEL == 999

\* the key of line 317
SortKey(it) ==
  <<IF it.page # NoPage THEN it.page ELSE PAGE_SENTINEL, OrEmpty(it.section), Lower(it.title)>>
KeyLess(x, y) ==
  \/ x[1] < y[1]
  \/ x[1] = y[1] /\ StrLess(x[2], y[2])
  \/ x[1] = y[1] /\ x[2] = y[2] /\ StrLess(x[3], y[3])

\* list.sort(key=...): stable
RECURSIVE InsertSorted(_, _)
InsertSorted(sorted, it) ==
  IF sorted = <<>> THEN <<it>>
  ELSE IF KeyLess(SortKey(it), SortKey(Head(sorted))) THEN <<it>> \o sorted
  ELSE <<Head(sorted)>> \o InsertSorted(Tail(sorted), it)
RECURSIVE SortItems(_)
SortItems(its) ==
  IF its = <<>> THEN <<>>
  ELSE InsertSorted(SortItems(SubSeq(its, 1, Len(its) - 1)), its[Len(its)])

\* lines 311-317
Canonical(its) == SortItems(Dedupe(its, {}))

\* ------------------------------------------------------------ text to lines
\* str.splitlines (the alphabet has the one line break)
RECURSIVE SplitLines(_)
SplitLines(t) ==
  IF t = "" THEN <<>>
  ELSE LET k == Run(t, 1, Alphabet \ {"\n"})
       IN <<SubSeq(t, 1, k)>> \o (IF k + 1 >= Len(t) THEN <<>> ELSE SplitLines(SubSeq(t, k + 2, Len(t))))

\* "\n".join
RECURSIVE JoinLines(_)
JoinLines(ls) ==
  IF ls = <<>> THEN ""
  ELSE IF Len(ls) = 1 THEN ls[1]
  ELSE ls[1] \o "\n" \o JoinLines(Tail(ls))

\* [ln for ln in ... if ln.strip()]
RECURSIVE NonBlank(_)
NonBlank(ls) ==
  IF ls = <<>> THEN <<>>
  ELSE (IF Strip(Head(ls)) # "" THEN <<Head(ls)>> ELSE <<>>) \o NonBlank(Tail(ls))

\* (the new yorker|the atlantic|harper'?s magazine), case-insensitive: the
\* positions right after an occurrence
BRAND_NAMES == {"the new yorker", "the atlantic", "harper's magazine", "harpers magazine"}
BrandNameEnds(s) ==
  LET low == Lower(s)
  IN UNION {{k + Len(nm) : k \in {j \in 1..Len(s) : StartsWithAt(low, j, nm)}} : nm \in BRAND_NAMES}

\* the expression of line 198 found in L
IssueRe(L) ==
  \E e \in BrandNameEnds(L) : \E q \in (e + 1)..Len(L) : Run(L, q, Digits) >= 4

\* the most lines looked at for the issue title, line 197
ISSUE_SCAN_LINES == 120

\* lines 197-200
RECURSIVE FirstIssue(_, _)
FirstIssue(ls, k) ==
  IF k > Len(ls) \/ k > ISSUE_SCAN_LINES THEN Null
  ELSE IF IssueRe(ls[k]) THEN Strip(ls[k])
  ELSE FirstIssue(ls, k + 1)
IssueTitle(txt) == FirstIssue(SplitLines(txt), 1)

\* FOOTER_RE.search(s), line 99
FooterTailAt(s, c) ==
  LET w1 == Run(s, c + 1, Spaces)
      wd == Run(s, c + 1 + w1, WordChars)
      w2 == Run(s, c + 1 + w1 + wd, Spaces)
      d0 == c + 1 + w1 + wd + w2
      d == Run(s, d0, Digits)
      w3 == Run(s, d0 + d + 1, Spaces)
  IN /\ At(s, c) = "," /\ w1 >= 1 /\ wd >= 1 /\ w2 >= 1 /\ d \in 1..2
     /\ d0 + d <= Len(s) /\ At(s, d0 + d) = ","
     /\ w3 >= 1 /\ Run(s, d0 + d + 1 + w3, Digits) >= 4
FOOTER_RE(s) ==
  \E e \in BrandNameEnds(s) : \E c \in e..Len(s) : FooterTailAt(s, c)

\* the letters of w from position k of s, whitespace allowed between them
\* (an apostrophe of w stands for either apostrophe)
RECURSIVE SpacedAt(_, _, _)
SpacedAt(s, k, w) ==
  IF w = "" THEN TRUE
  ELSE /\ k <= Len(s)
       /\ IF At(w, 1) = "'" THEN At(s, k) \in {"'", RQuote} ELSE UpperCh(At(s, k)) = At(w, 1)
       /\ LET k2 == IF Len(w) > 1 THEN k + 1 + Run(s, k + 1, Spaces) ELSE k + 1
          IN SpacedAt(s, k2, SubSeq(w, 2, Len(w)))

\* _HARPERS_END_RE matched at position k, lines 115-118
HarpersEndAt(s, k) ==
  LET U == Upper(s)
      h == IF StartsWithAt(U, k + 6, "'") \/ StartsWithAt(U, k + 6, RQuote) THEN k + 7 ELSE k + 6
  IN \/ /\ StartsWithAt(U, k, "HARPER") /\ StartsWithAt(U, h, "S")
        /\ Run(s, h + 1, Spaces) >= 1
        /\ StartsWithAt(U, h + 1 + Run(s, h + 1, Spaces), "INDEX")
     \/ StartsWithAt(U, k, "FINDINGS")
     \/ SpacedAt(s, k, "HARPER'SINDEX")
     \/ SpacedAt(s, k, "FINDINGS")
HarpersEndStarts(s) == {k \in 1..Len(s) : HarpersEndAt(s, k)}

\* lines 321-333
RECURSIVE UntilFooter(_)
UntilFooter(ls) ==
  IF ls = <<>> THEN <<>>
  ELSE IF FOOTER_RE(Head(ls)) THEN <<>>
  ELSE <<RStrip(Head(ls))>> \o UntilFooter(Tail(ls))
slice_region(txt, brd) ==
  LET low == Lower(txt)
      found == {Find(low, "table of contents"), Find(low, "contents")} \ {-1}
      start == IF found = {} THEN 0 ELSE Min(found)
      region == JoinLines(UntilFooter(SplitLines(SubSeq(txt, start + 1, Len(txt)))))
  IN IF brd = "harpers" /\ HarpersEndStarts(region) # {}
     THEN SubSeq(region, 1, Min(HarpersEndStarts(region)) - 1)
     ELSE region

\* lines 203-205
ParseLines(txt, brd) ==
  IF brd = "harpers" THEN NonBlank(SplitLines(txt))
  ELSE NonBlank(SplitLines(slice_region(txt, brd)))

\* lines 221-309: the scan loop run to its end
RECURSIVE ScanAll(_, _, _)
ScanAll(st, lns, brd) ==
  IF st.i > Len(lns) THEN st ELSE ScanAll(ScanLine(st, lns, brd), lns, brd)

\* parse(text, brand): lines 191-318
ParseResult(issue, st) ==
  [issue |-> issue, section_pages |-> st.section_pages, items |-> Canonical(st.items)]

parse(txt, brd) ==
  ParseResult(IssueTitle(txt),
              ScanAll(ScanState(1, Null, <<>>, <<>>), ParseLines(txt, brd), brd))

\* ----------------------------------------------------------- parse, stepwise
VARIABLES
  pc,             \* where the running function is
  text, brand,    \* the text being processed and the brand in force
  lines, i, section,          \* parse: the kept lines, the cursor, the current section
  section_pages, items, issue_title,
  out,            \* parse: the list returned; main: the formatted output
  args, pdf, log, status      \* main: the command line, the PDF and the tools, stderr, the exit status

\* the exit status: of a normal end, of an uncaught exception, of line 399
EXIT_OK == 0
EXIT_TRACEBACK == 1
EXIT_NO_PDF == 2
\* no exit yet
Running == -1

parseVars == <<lines, i, section>>
mainVars == <<args, pdf, log, status>>
vars == <<pc, text, brand, lines, i, section, section_pages, items, issue_title, out,
          args, pdf, log, status>>

\* the texts parse is called on: main cleans them first (lines 413, 423-427, 434)
LineSeqs == UNION {[1..k -> LINE_POOL] : k \in 0..MaxLines}
ParseInputs == {normalize(dehyphenate(JoinLines(ls))) : ls \in LineSeqs}

\* parse is entered: lines 191-195
Init ==
  /\ pc = "prelude"
  /\ text \in ParseInputs
  /\ brand \in Brands
  /\ lines = <<>>
  /\ i = 1
  /\ section = Null
  /\ section_pages = <<>>
  /\ items = <<>>
  /\ issue_title = Null
  /\ out = <<>>
  /\ args = <<>> /\ pdf = <<>> /\ log = <<>> /\ status = Running

\* lines 197-205
Prelude ==
  /\ pc = "prelude"
  /\ issue_title' = IssueTitle(text)
  /\ lines' = ParseLines(text, brand)
  /\ pc' = "scan"
  /\ UNCHANGED <<text, brand, i, section, section_pages, items, out, mainVars>>

\* lines 222-309: one pass of the loop body
ScanTo(st) ==
  /\ i' = st.i
  /\ section' = st.section
  /\ section_pages' = st.section_pages
  /\ items' = st.items

Scan ==
  /\ pc = "scan"
  /\ i <= Len(lines)
  /\ ScanTo(ScanLine(ScanState(i, section, section_pages, items), lines, brand))
  /\ UNCHANGED <<pc, text, brand, lines, issue_title, out, mainVars>>

\* lines 311-318: the loop is left, de-dupe + sort, return
Finish ==
  /\ pc = "scan"
  /\ i > Len(lines)
  /\ out' = Canonical(items)
  /\ pc' = "done"
  /\ UNCHANGED <<text, brand, lines, i, section, section_pages, items, issue_title, mainVars>>

Next == Prelude \/ Scan \/ Finish

Spec == Init /\ [][Next]_vars

\* ------------------------------------------------------------------- main
\* a call that raises (RuntimeError, CalledProcessError)
Fail == "<fail>"

\* the PDF on disk and the tools installed, as main meets them: what pdftotext
\* prints for the page window and for single pages in either mode, whether
\* pdftoppm succeeds, and what tesseract gives for each page image
PdfFile(name, exists, layout, raw, pages_layout, pages_raw, ppm_ok, ocr) ==
  [name |-> name, exists |-> exists, layout |-> layout, raw |-> raw,
   pages_layout |-> pages_layout, pages_raw |-> pages_raw, ppm_ok |-> ppm_ok, ocr |-> ocr]
Installed(file, pdftotext, ocr_tools) ==
  [file |-> file, pdftotext |-> pdftotext, ocr_tools |-> ocr_tools]

\* lines 33-38
pdftotext_extract(e, mode) ==
  IF ~e.pdftotext THEN Fail
  ELSE IF mode = "layout" THEN e.file.layout ELSE e.file.raw

PagesOf(e, mode) == IF mode = "layout" THEN e.file.pages_layout ELSE e.file.pages_raw

\* lines 40-45
pdftotext_extract_page(e, page, mode) ==
  IF ~e.pdftotext THEN Fail
  ELSE IF page \in DOMAIN PagesOf(e, mode) THEN PagesOf(e, mode)[page]
  ELSE Fail

\* lines 55-63: the pages tesseract read, a failed page skipped
RECURSIVE OcrParts(_)
OcrParts(pages) ==
  IF pages = <<>> THEN <<>>
  ELSE (IF Head(pages) = Fail THEN <<>> ELSE <<Head(pages)>>) \o OcrParts(Tail(pages))

\* lines 47-64; Fail is the CalledProcessError of line 54
ocr_first_pages(e) ==
  IF ~e.ocr_tools THEN ""
  ELSE IF ~e.file.ppm_ok THEN Fail
  ELSE JoinLines(OcrParts(e.file.ocr))

SPARSE_BELOW == 300
\* lines 66-68
looks_sparse(txt) ==
  Cardinality({k \in 1..Len(txt) : At(txt, k) \in Letters \cup Digits}) < SPARSE_BELOW

\* lines 120-128
BrandOfName(n) ==
  IF Contains(n, "new yorker") \/ Contains(n, "the_new_yorker") THEN "newyorker"
  ELSE IF Contains(n, "atlantic") THEN "atlantic"
  ELSE IF Contains(n, "harper") THEN "harpers"
  ELSE Null
BrandOfText(t) ==
  IF \/ Contains(t, "harper's magazine") \/ Contains(t, "harpers magazine")
     \/ Contains(t, "harper" \o RQuote \o "s magazine") THEN "harpers"
  ELSE IF Contains(t, "the new yorker") THEN "newyorker"
  ELSE IF Contains(t, "the atlantic") THEN "atlantic"
  ELSE "auto"
detect_brand_from_text(txt, pdf_name) ==
  IF BrandOfName(Lower(pdf_name)) # Null THEN BrandOfName(Lower(pdf_name))
  ELSE BrandOfText(Lower(txt))

\* re.findall(r"\b\d{1,3}\b", t), line 138: the words of one to three digits
NumberStarts(t) ==
  {k \in 1..Len(t) :
     /\ At(t, k) \in Digits
     /\ (k = 1 \/ At(t, k - 1) \notin WordChars)
     /\ Run(t, k, WordChars) = Run(t, k, Digits)
     /\ Run(t, k, Digits) <= 3}

TOC_PROBE_LAST == 7
TOC_MIN_NUMBERS == 6
TOC_FALLBACK == 3

\* lines 136-138
IsTocPage(t) ==
  /\ Contains(Lower(t), "contents") \/ Contains(Lower(t), "table of contents")
  /\ HarpersEndStarts(t) = {}
  /\ Cardinality(NumberStarts(t)) >= TOC_MIN_NUMBERS
TocCandidates(e) ==
  {p \in 1..TOC_PROBE_LAST :
     /\ pdftotext_extract_page(e, p, "layout") # Fail
     /\ IsTocPage(pdftotext_extract_page(e, p, "layout"))}
\* lines 139 and 142: the first page that qualifies, page 3 when none does
FirstOr(cands) == IF cands = {} THEN TOC_FALLBACK ELSE Min(cands)
\* lines 130-142
find_harpers_toc_page(e) == FirstOr(TocCandidates(e))

\* str(n) of a page number
RECURSIVE Str(_)
Str(n) == IF n < 10 THEN At(DigitStr, n + 1) ELSE Str(n \div 10) \o At(DigitStr, (n % 10) + 1)

\* what find_harpers_toc_page writes to stderr
ProbeLog(e, cands) ==
  (IF e.pdftotext
   THEN [p \in 1..(IF cands = {} THEN TOC_PROBE_LAST ELSE Min(cands)) |->
           "[text] -layout -f " \o Str(p)]
   ELSE <<>>)
  \o <<IF cands = {} THEN "[harpers] TOC fallback" ELSE "[harpers] TOC candidate">>

\* lines 421-426: the four page texts asked for, in order
TocModes == <<"layout", "layout", "raw", "raw">>
TocPages(tp) == <<tp, tp + 1, tp, tp + 1>>
RECURSIVE TocTexts(_, _, _)
TocTexts(e, tp, k) ==
  IF k > Len(TocModes) THEN <<>>
  ELSE (IF pdftotext_extract_page(e, TocPages(tp)[k], TocModes[k]) = Fail THEN <<>>
        ELSE <<normalize(dehyphenate(pdftotext_extract_page(e, TocPages(tp)[k], TocModes[k])))>>)
       \o TocTexts(e, tp, k + 1)
TocLog(e, tp) ==
  IF e.pdftotext
  THEN [k \in 1..Len(TocModes) |-> "[text] -" \o TocModes[k] \o " -f " \o Str(TocPages(tp)[k])]
  ELSE <<>>
\* filter(None, t)
RECURSIVE NonEmpty(_)
NonEmpty(ts) ==
  IF ts = <<>> THEN <<>>
  ELSE (IF Head(ts) = "" THEN <<>> ELSE <<Head(ts)>>) \o NonEmpty(Tail(ts))

\* --------------------------------------------------------------- formatters
\* the flags of format_plain
Flags(suppress_empty, include_mail, include_contributors) ==
  [suppress_empty |-> suppress_empty, include_mail |-> include_mail,
   include_contributors |-> include_contributors]

\* lines 356 and 362: a section the include flags hide
Hidden(sec, f) ==
  \/ sec = "THE MAIL" /\ ~f.include_mail
  \/ sec = "CONTRIBUTORS" /\ ~f.include_contributors

\* lines 338-343
Shown(its, f) == SelectSeq(its, LAMBDA it : ~Hidden(it.section, f))

\* by_sec.get(sec, []), lines 346-348
BySec(its, sec) == SelectSeq(its, LAMBDA it : it.section = sec)

\* lines 345-350: the sections of the items, in order of first appearance
RECURSIVE Order(_, _)
Order(its, seen) ==
  IF its = <<>> THEN <<>>
  ELSE IF Head(its).section \in seen \cup {Null, ""} THEN Order(Tail(its), seen)
  ELSE <<Head(its).section>> \o Order(Tail(its), seen \cup {Head(its).section})

\* lines 358 and 364
Heading(sec, pg) == IF pg # NoPage THEN sec \o " (p. " \o Str(pg) \o ")" ELSE sec

\* lines 355-358: the summary block
RECURSIVE Summary(_, _, _)
Summary(secpages, its, f) ==
  IF secpages = <<>> THEN <<>>
  ELSE (IF Hidden(Head(secpages)[1], f) THEN <<>>
        ELSE IF f.suppress_empty /\ BySec(its, Head(secpages)[1]) # <<>> THEN <<>>
        ELSE <<Heading(Head(secpages)[1], Head(secpages)[2])>>)
       \o Summary(Tail(secpages), its, f)

\* the key of line 365
GroupKey(it) == <<IF it.page # NoPage THEN it.page ELSE PAGE_SENTINEL, "", Lower(it.title)>>
RECURSIVE InsertGroup(_, _)
InsertGroup(sorted, it) ==
  IF sorted = <<>> THEN <<it>>
  ELSE IF KeyLess(GroupKey(it), GroupKey(Head(sorted))) THEN <<it>> \o sorted
  ELSE <<Head(sorted)>> \o InsertGroup(Tail(sorted), it)
RECURSIVE SortGroup(_)
SortGroup(its) ==
  IF its = <<>> THEN <<>>
  ELSE InsertGroup(SortGroup(SubSeq(its, 1, Len(its) - 1)), its[Len(its)])

\* lines 366-368
ItemLine(it) ==
  RStrip(Bullet \o " " \o it.title \o " "
         \o (IF it.page # NoPage THEN "(p. " \o Str(it.page) \o ")" ELSE "")
         \o (IF it.author \notin {Null, ""} THEN " " \o EmDash \o " " \o it.author ELSE ""))
RECURSIVE ItemLines(_)
ItemLines(its) == IF its = <<>> THEN <<>> ELSE <<ItemLine(Head(its))>> \o ItemLines(Tail(its))

\* section_pages.get(sec)
PageOf(secpages, sec) == IF sec \in SecKeys(secpages) THEN SecPage(secpages, sec) ELSE NoPage

\* lines 361-369
RECURSIVE Groups(_, _, _, _)
Groups(order, secpages, its, f) ==
  IF order = <<>> THEN <<>>
  ELSE (IF Hidden(Head(order), f) THEN <<>>
        ELSE <<Heading(Head(order), PageOf(secpages, Head(order)))>>
             \o ItemLines(SortGroup(BySec(its, Head(order)))) \o <<"">>)
       \o Groups(Tail(order), secpages, its, f)

\* line 370
RECURSIVE DropBlankTail(_)
DropBlankTail(ls) ==
  IF ls # <<>> /\ Strip(ls[Len(ls)]) = "" THEN DropBlankTail(SubSeq(ls, 1, Len(ls) - 1)) ELSE ls

PlainLines(issue, secpages, its, f) ==
  (IF issue \notin {Null, ""} THEN <<issue, "">> ELSE <<>>)
  \o Summary(secpages, its, f)
  \o (IF secpages # <<>> THEN <<"">> ELSE <<>>)
  \o Groups(Order(its, {}), secpages, its, f)

\* lines 336-371
format_plain(issue, secpages, its, f) ==
  JoinLines(DropBlankTail(PlainLines(issue, secpages, Shown(its, f), f))) \o "\n"

\* json.dumps of a str, ensure_ascii=False
JsonChar(c) ==
  IF c = "\"" THEN "\\\"" ELSE IF c = "\\" THEN "\\\\"
  ELSE IF c = "\n" THEN "\\n" ELSE IF c = "\t" THEN "\\t" ELSE c
JsonStr(x) ==
  "\"" \o ConcatRange([k \in 1..Len(x) |-> JsonChar(At(x, k))], 1, Len(x)) \o "\""
JsonOpt(x) == IF x = Null THEN "null" ELSE JsonStr(x)
JsonPage(pg) == IF pg = NoPage THEN "null" ELSE Str(pg)

\* ",\n".join
RECURSIVE JoinComma(_)
JoinComma(ls) ==
  IF ls = <<>> THEN ""
  ELSE IF Len(ls) = 1 THEN ls[1]
  ELSE ls[1] \o ",\n" \o JoinComma(Tail(ls))

JsonSections(secpages) ==
  IF secpages = <<>> THEN "{}"
  ELSE "{\n"
       \o JoinComma([k \in DOMAIN secpages |->
                       "    " \o JsonStr(secpages[k][1]) \o ": " \o JsonPage(secpages[k][2])])
       \o "\n  }"
\* asdict(i), line 374
JsonItem(it) ==
  "    {\n      \"page\": " \o JsonPage(it.page) \o ",\n      \"title\": " \o JsonStr(it.title)
  \o ",\n      \"section\": " \o JsonOpt(it.section) \o ",\n      \"author\": "
  \o JsonOpt(it.author) \o "\n    }"
JsonItems(its) ==
  IF its = <<>> THEN "[]"
  ELSE "[\n" \o JoinComma([k \in DOMAIN its |-> JsonItem(its[k])]) \o "\n  ]"

\* lines 373-375
format_json(issue, secpages, its) ==
  "{\n  \"issue\": " \o JsonOpt(issue) \o ",\n  \"sections\": " \o JsonSections(secpages)
  \o ",\n  \"items\": " \o JsonItems(its) \o "\n}"

\* --------------------------------------------------------- main, stepwise
\* the texts pdftotext and tesseract give for the PDFs below
TITLE_LINE == "The New Yorker, March 3, 2025"
FILLER ==
  <<"A story about a magician who disappears from a locked room",
    "An essay on the long history of the public library card",
    "Notes from a winter spent counting birds on the frozen river",
    "Letters between two painters who never met in person at all",
    "What the archive forgot and what the families remembered",
    "On learning to read maps again after the satellites failed",
    "The last ferry across the strait and the people who ran it">>
LAYOUT_3 ==
  <<TITLE_LINE, "CONTENTS", "THE MAIL    2", "FICTION  20",
    "The Vanishing Act ......... 34 " \o EmDash \o " Maria Lopez",
    "Jane Doe   A reply to last week   5", "12 Night Shift", "POEMS  50">>
RAW_7 ==
  <<"CONTENTS", "FICTION", "34 The Vanishing Act", "5 A Reply To Last Week", "12 Night Shift",
    "POEMS", "41 Ode To A Pdf", "BOOKS", "60 Briefly Noted", "77 The Long Century",
    "81 A Life In Letters">>
RAW_3 ==
  <<"CONTENTS", "BOOKS", "60 Briefly Noted", "77 The Long Century", "81 A Life In Letters">>
OCR_PAGES == <<"C0NTENTS\nFICTION", Fail, "34 The Vanishing Act\n5 A Reply To Last Week">>
HARPERS_COVER == "HARPER'S MAGAZINE\nMAY 2024"
HARPERS_TOC ==
  <<"Harper's Magazine / May 2024", "CONTENTS", "LETTERS    2",
    "Jane Doe   A reply to last week   5", "ESSAY  23",
    "The Vanishing Act ......... 34 " \o EmDash \o " Maria Lopez", "FICTION  55", "REVIEWS  71">>
HARPERS_TOC_RAW ==
  <<"CONTENTS", "LETTERS", "2", "5 A Reply To Last Week", "ESSAY", "34 The Vanishing Act">>
HARPERS_NEXT == <<"POETRY  60", "61 Ode To A Pdf", "FINDINGS  96">>

\* lines 413, 423, 425, 434
Cleaned(txt) == normalize(dehyphenate(txt))

\* the PDFs and tool installations main is run on
NoFile == PdfFile("gone.pdf", FALSE, Fail, Fail, <<>>, <<>>, FALSE, <<>>)
Issue(layout, raw, ppm_ok, ocr) ==
  PdfFile("issue.pdf", TRUE, layout, raw, <<layout>>, <<raw>>, ppm_ok, ocr)
HarpersIssue ==
  PdfFile("harpers-2024-05.pdf", TRUE, HARPERS_COVER, JoinLines(RAW_7),
          <<HARPERS_COVER, JoinLines(HARPERS_TOC), JoinLines(HARPERS_NEXT)>>,
          <<HARPERS_COVER, JoinLines(HARPERS_TOC_RAW)>>, TRUE, <<>>)
Environments ==
  { Installed(NoFile, TRUE, TRUE),
    Installed(Issue(JoinLines(LAYOUT_3), JoinLines(RAW_7), TRUE, OCR_PAGES), FALSE, FALSE),
    Installed(Issue(JoinLines(LAYOUT_3), JoinLines(RAW_7), TRUE, OCR_PAGES), FALSE, TRUE),
    Installed(Issue(JoinLines(LAYOUT_3 \o FILLER), JoinLines(RAW_7), TRUE, <<>>), TRUE, TRUE),
    Installed(Issue(JoinLines(LAYOUT_3), JoinLines(RAW_3), TRUE, <<>>), TRUE, FALSE),
    Installed(Issue(JoinLines(LAYOUT_3), Fail, TRUE, <<>>), TRUE, FALSE),
    Installed(Issue(JoinLines(LAYOUT_3), JoinLines(RAW_7), FALSE, <<>>), TRUE, TRUE),
    Installed(Issue(Fail, Fail, TRUE, <<Fail, Fail, Fail>>), TRUE, TRUE),
    Installed(Issue(JoinLines(LAYOUT_3), JoinLines(RAW_7), TRUE, OCR_PAGES), TRUE, TRUE),
    Installed(Issue(JoinLines(RAW_7 \o FILLER), JoinLines(RAW_3), TRUE, <<>>), TRUE, TRUE),
    Installed(Issue("", "", TRUE, <<"">>), TRUE, TRUE),
    Installed(HarpersIssue, TRUE, TRUE) }

\* lines 420-428 on each of these, computed once: the text and the stderr lines
HarpersText(e, tp) == JoinLines(NonEmpty(TocTexts(e, tp, 1)))
HarpersLog(e, cands) ==
  ProbeLog(e, cands) \o TocLog(e, FirstOr(cands)) \o <<"[harpers] Using TOC pages">>
HarpersRun(e, cands) == [text |-> HarpersText(e, FirstOr(cands)), log |-> HarpersLog(e, cands)]
HarpersTable == [e \in Environments |-> HarpersRun(e, TocCandidates(e))]

\* the texts main has parsed on these, and parse of each, computed once
TextsOf(e) ==
  {Cleaned(t) : t \in ({e.file.layout, e.file.raw, ocr_first_pages(e), ""} \ {Fail})}
  \cup {HarpersTable[e].text}
KnownTexts == UNION {TextsOf(e) : e \in Environments}
ParseTable == [t \in KnownTexts |-> [b \in Brands |-> parse(t, b)]]
ParseOf(txt, brd) == IF txt \in KnownTexts THEN ParseTable[txt][brd] ELSE parse(txt, brd)

\* the command line, lines 379-391 (--pages, --ocr-first at their defaults; --quiet,
\* --verbose and --out off)
Args(brand_opt, json, no_suppress_empty, include_mail, include_contributors) ==
  [brand |-> brand_opt, json |-> json, no_suppress_empty |-> no_suppress_empty,
   include_mail |-> include_mail, include_contributors |-> include_contributors]
CommandLines ==
  {Args(b, j, n, m, c) : b \in Brands, j \in BOOLEAN, n \in BOOLEAN, m \in BOOLEAN, c \in BOOLEAN}

MIN_ITEMS == 4

InitMain ==
  /\ pc = "check_pdf"
  /\ args \in CommandLines
  /\ pdf \in Environments
  /\ text = ""
  /\ brand = Null
  /\ issue_title = Null
  /\ section_pages = <<>>
  /\ items = <<>>
  /\ out = ""
  /\ log = <<>>
  /\ status = Running
  /\ lines = <<>> /\ i = 1 /\ section = Null

\* lines 398-399
CheckPdf ==
  /\ pc = "check_pdf"
  /\ IF pdf.file.exists
     THEN pc' = "layout" /\ UNCHANGED <<log, status>>
     ELSE pc' = "exited" /\ status' = EXIT_NO_PDF /\ log' = Append(log, "[err] PDF not found")
  /\ UNCHANGED <<text, brand, section_pages, items, issue_title, out, args, pdf, parseVars>>

\* Layout with the except clause of lines 405-406 taken away: the error of
\* pdftotext_extract leaves main
LayoutFatal ==
  /\ pc = "layout"
  /\ IF pdftotext_extract(pdf, "layout") = Fail
     THEN /\ pc' = "exited" /\ status' = EXIT_TRACEBACK /\ UNCHANGED text
          /\ log' = log \o (IF pdf.pdftotext THEN <<"[text] -layout">> ELSE <<>>)
     ELSE /\ text' = pdftotext_extract(pdf, "layout")
          /\ log' = Append(log, "[text] -layout")
          /\ pc' = "sparse" /\ UNCHANGED status
  /\ UNCHANGED <<brand, section_pages, items, issue_title, out, args, pdf, parseVars>>

\* lines 401-406
Layout ==
  /\ pc = "layout"
  /\ text' = IF pdftotext_extract(pdf, "layout") = Fail THEN ""
             ELSE pdftotext_extract(pdf, "layout")
  /\ log' = log \o (IF pdf.pdftotext THEN <<"[text] -layout">> ELSE <<>>)
                \o (IF pdftotext_extract(pdf, "layout") = Fail
                    THEN <<"[warn] layout failed">> ELSE <<>>)
  /\ pc' = "sparse"
  /\ UNCHANGED <<brand, section_pages, items, issue_title, out, args, pdf, status, parseVars>>

\* what ocr_first_pages writes to stderr
OcrLog(e) ==
  IF ~e.ocr_tools THEN <<>>
  ELSE <<"[ocr] pdftoppm">>
       \o (IF e.file.ppm_ok THEN [k \in DOMAIN e.file.ocr |-> "[ocr] tesseract"] ELSE <<>>)

\* lines 408-411: the exception of line 54 is caught nowhere
Sparse ==
  /\ pc = "sparse"
  /\ IF ~looks_sparse(text)
     THEN pc' = "detect" /\ UNCHANGED <<text, log, status>>
     ELSE /\ log' = log \o <<"[info] Sparse text; OCR">> \o OcrLog(pdf)
          /\ IF ocr_first_pages(pdf) = Fail
             THEN pc' = "exited" /\ status' = EXIT_TRACEBACK /\ UNCHANGED text
             ELSE /\ text' = IF ocr_first_pages(pdf) # "" THEN ocr_first_pages(pdf) ELSE text
                  /\ pc' = "detect"
                  /\ UNCHANGED status
  /\ UNCHANGED <<brand, section_pages, items, issue_title, out, args, pdf, parseVars>>

BrandFor(a, txt, pdf_name) ==
  IF a.brand # "auto" THEN a.brand ELSE detect_brand_from_text(txt, pdf_name)
DetectTo(txt, brd) ==
  /\ text' = txt
  /\ brand' = brd
  /\ pc' = IF brd = "harpers" THEN "harpers" ELSE "parse"

\* lines 413-416
Detect ==
  /\ pc = "detect"
  /\ DetectTo(Cleaned(text), BrandFor(args, Cleaned(text), pdf.file.name))
  /\ UNCHANGED <<section_pages, items, issue_title, out, args, pdf, log, status, parseVars>>

\* lines 419-428
HarpersPages ==
  /\ pc = "harpers"
  /\ text' = HarpersTable[pdf].text
  /\ log' = log \o HarpersTable[pdf].log
  /\ pc' = "parse"
  /\ UNCHANGED <<brand, section_pages, items, issue_title, out, args, pdf, status, parseVars>>

Assign(r) ==
  /\ issue_title' = r.issue
  /\ section_pages' = r.section_pages
  /\ items' = r.items

\* line 432
NeedsRaw(brd, its) == brd # "harpers" /\ Len(its) < MIN_ITEMS
ParseTo(r) ==
  /\ Assign(r)
  /\ pc' = IF NeedsRaw(brand, r.items) THEN "raw" ELSE "format"

\* line 430
Parse ==
  /\ pc = "parse"
  /\ ParseTo(ParseOf(text, brand))
  /\ UNCHANGED <<text, brand, out, args, pdf, log, status, parseVars>>

\* line 436 with >= for >: a raw parse with as many items also replaces
ReplacesOnTie(it2, its) == Len(it2) >= Len(its)
\* line 436
Replaces(it2, its) == Len(it2) > Len(its)
RawTo(r) ==
  IF Replaces(r.items, items) THEN Assign(r)
  ELSE UNCHANGED <<issue_title, section_pages, items>>

\* lines 432-438
RawRetry ==
  /\ pc = "raw"
  /\ log' = log \o (IF pdf.pdftotext THEN <<"[text] -raw">> ELSE <<>>)
                \o (IF pdftotext_extract(pdf, "raw") = Fail
                    THEN <<"[warn] raw failed">> ELSE <<>>)
  /\ IF pdftotext_extract(pdf, "raw") = Fail
     THEN UNCHANGED <<issue_title, section_pages, items>>
     ELSE RawTo(ParseOf(Cleaned(pdftotext_extract(pdf, "raw")), brand))
  /\ pc' = "format"
  /\ UNCHANGED <<text, brand, out, args, pdf, status, parseVars>>

FlagsOf(a) == Flags(~a.no_suppress_empty, a.include_mail, a.include_contributors)

\* lines 440-451
Output ==
  /\ pc = "format"
  /\ out' = IF args.json THEN format_json(issue_title, section_pages, items)
            ELSE format_plain(issue_title, section_pages, items, FlagsOf(args))
  /\ pc' = "done"
  /\ status' = EXIT_OK
  /\ UNCHANGED <<text, brand, section_pages, items, issue_title, args, pdf, log, parseVars>>

NextMain ==
  \/ CheckPdf \/ Layout \/ Sparse \/ Detect \/ HarpersPages \/ Parse \/ RawRetry \/ Output

SpecMain == InitMain /\ [][NextMain]_vars

\* ------------------------------------------------------- properties of parse
\* the line at the cursor is consumed as a section header (lines 225-229)
IsHeaderLine(line, brd) ==
  /\ ~ShapeOf(line).date
  /\ ~ShapeOf(line).noise
  /\ SectionOfLine(line, brd).ok

\* the section named by the last header among the first k lines, Null when none
RECURSIVE LastHeader(_, _, _)
LastHeader(lns, k, brd) ==
  IF k = 0 THEN Null
  ELSE IF IsHeaderLine(Strip(lns[k]), brd) THEN SectionOfLine(Strip(lns[k]), brd).name
  ELSE LastHeader(lns, k - 1, brd)

\* C1: items are only ever appended, an item already emitted is never changed, and
\* each new item carries a non-null section, the one of the most recent section
\* header among the lines before the cursor (so no item before the first header);
\* the list returned holds only items emitted by the scan.
C1_ItemsCarryLatestSection ==
  [][/\ Len(items') >= Len(items)
     /\ SubSeq(items', 1, Len(items)) = items
     /\ \A k \in (Len(items) + 1)..Len(items') :
          /\ items'[k].section # Null
          /\ items'[k].section = section
          /\ items'[k].section = LastHeader(lines, i - 1, brand)
     /\ pc' = "done" => \A k \in DOMAIN out' : out'[k] \in Range(items)]_vars

\* an item was emitted under one section and a later header has opened another
C1_Witness ==
  /\ pc = "scan"
  /\ Len(items) >= 1
  /\ section # items[1].section

\* C2: the list returned has exactly one item per (page, lowercased title, section)
\* of the scanned items, no two of its items share that triple, and the item kept
\* is the first one of the scan with that triple, all fields unchanged.
C2_DedupFirstWins ==
  pc = "done" =>
    LET key(x) == <<x.page, Lower(x.title), x.section>>
        first(kk) == items[Min({j \in DOMAIN items : key(items[j]) = kk})]
    IN /\ \A j, k \in DOMAIN out : j # k => key(out[j]) # key(out[k])
       /\ {key(x) : x \in Range(out)} = {key(x) : x \in Range(items)}
       /\ \A k \in DOMAIN out : out[k] = first(key(out[k]))

\* a scanned item was dropped as a duplicate of an earlier one it differs from
C2_Witness ==
  /\ pc = "done"
  /\ \E j \in DOMAIN items : items[j] \notin Range(out)

HeaderAt(lns, k, brd) == SectionOfLine(Strip(lns[k]), brd)

\* C4: a key of section_pages is never removed or moved, a page once recorded is
\* never changed, and a header that carries a page gives it to a section that has
\* none yet.
C4_SectionPagesStable ==
  [][/\ Len(section_pages') >= Len(section_pages)
     /\ \A k \in DOMAIN section_pages :
          /\ section_pages'[k][1] = section_pages[k][1]
          /\ section_pages[k][2] # NoPage => section_pages'[k][2] = section_pages[k][2]
     /\ (/\ pc = "scan" /\ i <= Len(lines)
         /\ IsHeaderLine(Strip(lines[i]), brand)
         /\ HeaderAt(lines, i, brand).pg # NoPage
         /\ \A k \in DOMAIN section_pages :
              section_pages[k][1] = HeaderAt(lines, i, brand).name => section_pages[k][2] = NoPage)
        => \E k \in DOMAIN section_pages' :
              section_pages'[k] = <<HeaderAt(lines, i, brand).name, HeaderAt(lines, i, brand).pg>>]_vars

\* FICTION, then 15 FICTION, then FICTION  20: the page is filled in once and kept
C4_Witness ==
  /\ pc = "done"
  /\ Len(lines) = 3
  /\ Strip(lines[1]) = "FICTION"
  /\ Strip(lines[3]) = "FICTION  20"
  /\ section_pages = <<<<"FICTION", 15>>>>

\* C5, as claimed: no item is emitted under the letters or the contributors section,
\* and LETTERS    2 followed by the Jane Doe line records LETTERS with page 2 and
\* gives no item.
C5_Original ==
  /\ \A k \in DOMAIN items : items[k].section \notin {"THE MAIL", "LETTERS", "CONTRIBUTORS"}
  /\ (/\ pc = "done" /\ brand = "harpers"
      /\ lines = <<"LETTERS    2", "Jane Doe   A reply to last week   5">>)
     => (section_pages = <<<<"LETTERS", 2>>>> /\ out = <<>>)

\* C6, as claimed: every emitted item has a page in [1, 999] and a title with a letter.
C6_Original ==
  \A k \in DOMAIN items : valid_page(items[k].page) /\ HasAlpha(items[k].title)

\* -------------------------------------------------------- properties of main
\* the parse of line 430, of the text main has kept since
FirstParse == ParseOf(text, brand)
\* the raw-mode text of the page window was got (line 434), and its parse (line 435)
RawOk == pdftotext_extract(pdf, "raw") # Fail
RawParse == ParseOf(Cleaned(pdftotext_extract(pdf, "raw")), brand)
\* main has called pdftotext_extract in raw mode: it wrote the command, or the warning
\* when pdftotext is missing
RawAttempted == \E k \in DOMAIN log : log[k] \in {"[text] -raw", "[warn] raw failed"}
\* the triple main formats
Final == [issue |-> issue_title, section_pages |-> section_pages, items |-> items]

\* C7: once main is past the retry, the raw-mode extraction was attempted exactly
\* when the brand is not harpers and the first parse gave fewer than 4 items (so
\* never for harpers), and the triple (issue title, section map, items) is the raw
\* parse as a whole when the raw text was got and its parse has strictly more items
\* than the first, and the first parse as a whole otherwise; never a mix of the two.
C7_RawRetryWholeTriple ==
  pc \in {"format", "done"} =>
    /\ RawAttempted <=> (brand # "harpers" /\ Len(FirstParse.items) < 4)
    /\ Final = IF RawAttempted /\ RawOk /\ Len(RawParse.items) > Len(FirstParse.items)
               THEN RawParse ELSE FirstParse

\* layout gave 3 items and raw 7: the output is made of the raw triple, whose title
\* and section map differ from those of the layout parse
C7_Witness ==
  /\ pc = "done"
  /\ brand # "harpers"
  /\ Len(FirstParse.items) = 3
  /\ RawOk /\ Len(RawParse.items) = 7
  /\ Final = RawParse
  /\ issue_title # FirstParse.issue
  /\ section_pages # FirstParse.section_pages

\* the first extraction, in layout mode, fails: pdftotext is missing or exits non-zero
LayoutFails == pdftotext_extract(pdf, "layout") = Fail

OcrNothing == ocr_first_pages(pdf) \in {Fail, ""}

\* C9, as claimed: the OCR fallback and the raw-mode retry always hand control back;
\* when the fallback failed main keeps the text, or the triple, it had, and the run
\* goes on towards formatting without exiting.
C9_Original ==
  [][/\ (pc = "sparse" /\ looks_sparse(text)) =>
          /\ pc' = "detect" /\ status' = Running
          /\ OcrNothing => text' = text
     /\ pc = "raw" =>
          /\ pc' = "format" /\ status' = Running
          /\ ~RawOk => UNCHANGED <<issue_title, section_pages, items>>]_vars

\* the lines of the summary block of a plain output: those after the title and its
\* blank line, up to the first blank line
RECURSIVE UntilBlank(_)
UntilBlank(ls) ==
  IF ls = <<>> \/ Head(ls) = "" THEN <<>> ELSE <<Head(ls)>> \o UntilBlank(Tail(ls))
SummaryBlock(o, issue) ==
  UntilBlank(IF issue \notin {Null, ""} THEN SubSeq(SplitLines(o), 3, Len(SplitLines(o)))
             ELSE SplitLines(o))

\* C10, as claimed: in the plain output, a recorded section with no items that the
\* include toggles do not hide is listed in the summary block exactly when
\* suppression of empty sections is off.
C10_Original ==
  (pc = "done" /\ ~args.json) =>
    \A k \in DOMAIN section_pages :
      (/\ ~Hidden(section_pages[k][1], FlagsOf(args))
       /\ BySec(items, section_pages[k][1]) = <<>>)
      => (Heading(section_pages[k][1], section_pages[k][2])
            \in Range(SummaryBlock(out, issue_title))
          <=> args.no_suppress_empty)

\* ------------------------------------------------- noise lines and the scan
\* the test of lines 225-226 on a stripped line
IsNoiseLine(line) == ShapeOf(line).date \/ ShapeOf(line).noise

\* C11, as claimed: a pass of the loop with a noise line at the cursor moves the
\* cursor by one and leaves current section, section_pages and items alone, and no
\* pass puts the text of a noise line of the input into the title of an item.
C11_Original ==
  [][(pc = "scan" /\ i <= Len(lines)) =>
       /\ IsNoiseLine(Strip(lines[i])) =>
            (i' = i + 1 /\ UNCHANGED <<section, section_pages, items>>)
       /\ \A k \in DOMAIN lines :
            IsNoiseLine(Strip(lines[k])) =>
              \A j \in DOMAIN items' : ~Contains(items'[j].title, Strip(lines[k]))]_vars

====
